---- MODULE Spec2Model ----
(***************************************************************************)
(* Mars terraforming game (App component, GameAgent).                      *)
(*                                                                         *)
(* The App component is a set of React state cells, five setInterval       *)
(* timers owned by effects, and two mutation entry points (handleAction,   *)
(* purchaseUpgrade) that are called by click handlers of the latest render *)
(* and by the agent's dispatch interval, whose callback keeps the closure  *)
(* of the render in which its effect last ran.                             *)
(*                                                                         *)
(* Numbers: every resource is held in fixed point, U per unit (1 % or      *)
(* 1 degree C).  All gains and drains of the program are multiples of      *)
(* 1/U, so the arithmetic below is exact (no rounding is introduced).      *)
(* Time: one model tick is TickMs milliseconds, the finest timer period.   *)
(*                                                                         *)
(* Rendering: every callback (click, timer, promise resolution) is one     *)
(* action; its state updates are committed and the effects whose           *)
(* dependencies changed are run, repeatedly, until no effect changes the   *)
(* state (Render), before the next callback starts.  Presentation-only     *)
(* cells (currentEvent, agentActionTarget) are left out.                   *)
(***************************************************************************)
EXTENDS Integers, Sequences, FiniteSets, TLC

\* ------------------------------------------------------------- bounds
MaxClicks == 1
MaxTime == 6
MaxInflight == 1
MaxCalls == 2
MaxAnalyses == 3

\* ------------------------------------------------------------- numbers
U == 1000 * 1000

TickMs == 500

AgentPeriod == 5000 \div TickMs
ActionPeriod == 500 \div TickMs
EventPeriod == 6000 \div TickMs
DrainPeriod == 3000 \div TickMs
CountdownPeriod == 1000 \div TickMs
EventCooldown == 15000 \div TickMs

Off == -1

Min(a, b) == IF a < b THEN a ELSE b

Max(a, b) == IF a > b THEN a ELSE b

\* ------------------------------------------------------------- catalogs
ResourceTypes == {"oxygen", "water", "temperature", "energy"}

\* The initial upgrades array; multiplier in hundredths (1.2 is 120).
UpgradeCatalog ==
  << [id |-> "oxygen1", cost |-> 80,  resourceType |-> "oxygen",      multiplier |-> 120],
     [id |-> "water1",  cost |-> 80,  resourceType |-> "water",       multiplier |-> 120],
     [id |-> "temp1",   cost |-> 80,  resourceType |-> "temperature", multiplier |-> 120],
     [id |-> "oxygen2", cost |-> 200, resourceType |-> "oxygen",      multiplier |-> 150],
     [id |-> "water2",  cost |-> 200, resourceType |-> "water",       multiplier |-> 150],
     [id |-> "temp2",   cost |-> 200, resourceType |-> "temperature", multiplier |-> 150],
     [id |-> "energy1", cost |-> 150, resourceType |-> "energy",      multiplier |-> 130],
     [id |-> "energy2", cost |-> 300, resourceType |-> "energy",      multiplier |-> 180] >>

UpgradeIds == {UpgradeCatalog[i].id : i \in DOMAIN UpgradeCatalog}

UpgradeOf(id) == UpgradeCatalog[CHOOSE i \in DOMAIN UpgradeCatalog : UpgradeCatalog[i].id = id]

EventIds ==
  {"dust_storm", "ice_discovery", "solar_flare", "meteor_impact", "radiation_storm",
   "volcanic_activity", "equipment_failure", "atmospheric_leak", "freezing_wave",
   "sandstorm", "system_failure", "energy_surge"}

\* events[id].effect(res)
EventEffect(id, res) ==
  CASE id = "dust_storm" ->
         [res EXCEPT !.oxygen = Max(0, @ - 12 * U),
                     !.temperature = Max(-60 * U, @ - 5 * U),
                     !.energy = Max(0, @ - 15 * U)]
    [] id = "ice_discovery" -> [res EXCEPT !.water = Min(100 * U, @ + 12 * U)]
    [] id = "solar_flare" -> [res EXCEPT !.temperature = Min(50 * U, @ + 4 * U)]
    [] id = "meteor_impact" ->
         [res EXCEPT !.water = Min(100 * U, @ + 15 * U),
                     !.temperature = Min(50 * U, @ + 2 * U)]
    [] id = "radiation_storm" -> [res EXCEPT !.oxygen = Max(0, @ - 12 * U)]
    [] id = "volcanic_activity" -> [res EXCEPT !.temperature = Min(50 * U, @ + 6 * U)]
    [] id = "equipment_failure" ->
         [res EXCEPT !.oxygen = Max(0, @ - 10 * U), !.water = Max(0, @ - 8 * U)]
    [] id = "atmospheric_leak" -> [res EXCEPT !.oxygen = Max(0, @ - 15 * U)]
    [] id = "freezing_wave" ->
         [res EXCEPT !.temperature = Max(-60 * U, @ - 8 * U),
                     !.water = Max(0, @ - 5 * U)]
    [] id = "sandstorm" ->
         [res EXCEPT !.oxygen = Max(0, @ - 7 * U), !.water = Max(0, @ - 4 * U)]
    [] id = "system_failure" ->
         [res EXCEPT !.oxygen = Max(0, @ - 20 * U),
                     !.water = Max(0, @ - 15 * U),
                     !.energy = Max(0, @ - 25 * U)]
    [] id = "energy_surge" -> [res EXCEPT !.energy = Max(0, @ - 30 * U)]

\* ------------------------------------------------------------- state
VARIABLES
  resources,        \* useState<Resource>; extra: a non-Resource key (NaN) is present
  credits,
  upgrades,         \* upgrade id -> purchased
  gameStarted, gameWon, gameLost,
  criticalTimer, countdownSeconds,
  eventsEnabled,
  agent,            \* a GameAgent has been constructed
  isAgentPlaying,
  pendingActions,
  eventCooldowns,   \* event id -> Date.now() of its last trigger, in ticks
  timers,           \* ticks until each setInterval fires next, Off when cleared
  actionClosure,    \* what the actionInterval callback closed over
  eventClosure,     \* the eventCooldowns the eventInterval callback closed over
  inflight,         \* getNextActions promises not yet settled
  now,              \* ticks elapsed
  clicks,           \* user inputs so far
  hist,             \* history: what an observer of the countdown has recorded
  messageHistory,   \* GameAgent: the conversation log
  returned,         \* what the last getNextActions call resolved to
  lastOutcome,      \* what the remote call of the last getNextActions call did
  calls,            \* getNextActions calls so far
  observer          \* the GameObserver: its fields, the clock and the calls made

appVars == << resources, credits, upgrades, gameStarted, gameWon, gameLost,
              criticalTimer, countdownSeconds, eventsEnabled, agent, isAgentPlaying,
              pendingActions, eventCooldowns, timers, actionClosure, eventClosure,
              inflight, now, clicks, hist >>

agentVars == << messageHistory, returned, lastOutcome, calls >>

observerVars == << observer >>

vars == << appVars, agentVars, observerVars >>

\* ------------------------------------------------------------- snapshots
\* The state cells of one render, as a record; resourcesNew / pendingNew say
\* that setResources / setPendingActions produced a new object in the callback
\* being processed (a dependency array compares objects by identity).
Cur ==
  [ resources |-> resources, credits |-> credits, upgrades |-> upgrades,
    gameStarted |-> gameStarted, gameWon |-> gameWon, gameLost |-> gameLost,
    criticalTimer |-> criticalTimer, countdownSeconds |-> countdownSeconds,
    eventsEnabled |-> eventsEnabled, agent |-> agent,
    isAgentPlaying |-> isAgentPlaying, pendingActions |-> pendingActions,
    eventCooldowns |-> eventCooldowns, timers |-> timers,
    actionClosure |-> actionClosure, eventClosure |-> eventClosure,
    inflight |-> inflight, resourcesNew |-> FALSE, pendingNew |-> FALSE ]

\* What handleAction, purchaseUpgrade and the upgrades array of a render read
\* from that render: resources.energy, credits, upgrades and the three flags.
ClosureOf(s) ==
  [ energy |-> s.resources.energy, credits |-> s.credits, upgrades |-> s.upgrades,
    gameStarted |-> s.gameStarted, gameWon |-> s.gameWon, gameLost |-> s.gameLost ]

\* The closure of a render in which no actionInterval was created.
NoClosure ==
  [ energy |-> 0, credits |-> 0, upgrades |-> [id \in UpgradeIds |-> FALSE],
    gameStarted |-> FALSE, gameWon |-> FALSE, gameLost |-> FALSE ]

\* ------------------------------------------------------------- entry points
RECURSIVE MultiplierFrom(_, _, _, _)
MultiplierFrom(ups, resourceType, i, mult) ==
  IF i > Len(UpgradeCatalog) THEN mult
  ELSE LET u == UpgradeCatalog[i]
       IN MultiplierFrom(ups, resourceType, i + 1,
            IF u.resourceType = resourceType /\ ups[u.id]
              THEN (mult * u.multiplier) \div 100 ELSE mult)

\* getMultiplier over the upgrades array ups, in hundredths.
GetMultiplier(ups, resourceType) == MultiplierFrom(ups, resourceType, 1, 100)

\* baseGain of handleAction, in tenths.
BaseGain(type) == IF type = "temperature" THEN 3 ELSE 30

\* baseGain[type] * multiplier * energyEfficiency, energyEfficiency = energy / 100.
Gain(type, multiplier, energy) ==
  (BaseGain(type) * multiplier * (energy \div (U \div 100))) \div 10

\* 8 * multiplier
EnergyGain(multiplier) == 8 * multiplier * (U \div 100)

\* The object the second setResources updater of handleAction returns.
Generated(prev, type, multiplier) ==
  LET gained ==
        IF type = "temperature"
          THEN [prev EXCEPT !.temperature = Min(50 * U, @ + Gain(type, multiplier, prev.energy))]
          ELSE IF type \in {"oxygen", "water"}
            THEN [prev EXCEPT ![type] = Min(100 * U, @ + Gain(type, multiplier, prev.energy))]
            ELSE [prev EXCEPT !.extra = TRUE]
  IN [gained EXCEPT !.energy = Max(0, prev.energy - 10 * U)]

\* handleAction with setResources given an object built from the resources
\* of its render instead of an updater of prev.
HandleActionOnRender(c, s, type) ==
  LET s1 == IF ~c.gameStarted THEN [s EXCEPT !.gameStarted = TRUE] ELSE s
      seen == [s.resources EXCEPT !.energy = c.energy]
  IN IF c.gameWon \/ c.gameLost THEN s1
     ELSE IF type = "energy"
       THEN [s1 EXCEPT
               !.resources.energy =
                  Min(100 * U, c.energy + EnergyGain(GetMultiplier(c.upgrades, type))),
               !.resourcesNew = TRUE,
               !.credits = @ + 2]
       ELSE IF c.energy < 10 * U THEN s1
       ELSE [s1 EXCEPT
               !.resources = Generated(seen, type, GetMultiplier(c.upgrades, type)),
               !.resourcesNew = TRUE,
               !.credits = @ + 2]

\* handleAction(type) of the render c, applied to the current state s.
HandleAction(c, s, type) ==
  LET s1 == IF ~c.gameStarted THEN [s EXCEPT !.gameStarted = TRUE] ELSE s
  IN IF c.gameWon \/ c.gameLost THEN s1
     ELSE IF type = "energy"
       THEN [s1 EXCEPT
               !.resources.energy =
                  Min(100 * U, @ + EnergyGain(GetMultiplier(c.upgrades, type))),
               !.resourcesNew = TRUE,
               !.credits = @ + 2]
       ELSE IF c.energy < 10 * U THEN s1
       ELSE [s1 EXCEPT
               !.resources = Generated(@, type, GetMultiplier(c.upgrades, type)),
               !.resourcesNew = TRUE,
               !.credits = @ + 2]

\* purchaseUpgrade without its setGameStarted(true).
PurchaseUpgradeNotStarting(c, s, id) ==
  IF c.gameWon \/ c.gameLost THEN s
  ELSE IF c.credits >= UpgradeOf(id).cost /\ ~c.upgrades[id]
    THEN [s EXCEPT !.credits = @ - UpgradeOf(id).cost, !.upgrades[id] = TRUE]
    ELSE s

\* purchaseUpgrade(upgrade), upgrade taken from the upgrades array of render c.
PurchaseUpgrade(c, s, id) ==
  LET s1 == IF ~c.gameStarted THEN [s EXCEPT !.gameStarted = TRUE] ELSE s
  IN IF c.gameWon \/ c.gameLost THEN s1
     ELSE IF c.credits >= UpgradeOf(id).cost /\ ~c.upgrades[id]
       THEN [s1 EXCEPT !.credits = @ - UpgradeOf(id).cost, !.upgrades[id] = TRUE]
       ELSE s1

\* The body of the setPendingActions updater for the head action nextAction.
Dispatch(c, s, nextAction) ==
  IF nextAction.type = "generate" THEN HandleAction(c, s, nextAction.target)
  ELSE IF nextAction.type = "purchase" /\ nextAction.target \in UpgradeIds
    THEN PurchaseUpgrade(c, s, nextAction.target)
    ELSE s

\* The drain without its Math.max floors.
DrainedUnfloored(prev) ==
  LET factor == 2 * U - prev.energy \div 100
  IN [ oxygen |-> prev.oxygen - (12 * factor) \div 10,
       water |-> prev.water - (8 * factor) \div 10,
       temperature |-> prev.temperature - (4 * factor) \div 10,
       energy |-> prev.energy - (6 * U) \div 10,
       extra |-> FALSE ]

\* The drain at its base rates, whatever the energy.
DrainedAtBaseRate(prev) ==
  [ oxygen |-> Max(0, prev.oxygen - (12 * U) \div 10),
    water |-> Max(0, prev.water - (8 * U) \div 10),
    temperature |-> Max(-60 * U, prev.temperature - (4 * U) \div 10),
    energy |-> Max(0, prev.energy - (6 * U) \div 10),
    extra |-> FALSE ]

\* The object the drainInterval updater returns.
Drained(prev) ==
  LET factor == 2 * U - prev.energy \div 100
  IN [ oxygen |-> Max(0, prev.oxygen - (12 * factor) \div 10),
       water |-> Max(0, prev.water - (8 * factor) \div 10),
       temperature |-> Max(-60 * U, prev.temperature - (4 * factor) \div 10),
       energy |-> Max(0, prev.energy - (6 * U) \div 10),
       extra |-> FALSE ]

\* The critical test with < in place of <=.
IsCriticalBelow(res) == res.oxygen < 5 * U \/ res.water < 5 * U \/ res.energy < 5 * U

IsCritical(res) == res.oxygen <= 5 * U \/ res.water <= 5 * U \/ res.energy <= 5 * U

\* The win test with temperature > 15 in place of >= 15.
WinConditionAbove(res) ==
  res.oxygen >= 100 * U /\ res.water >= 100 * U /\ res.temperature > 15 * U

WinCondition(res) ==
  res.oxygen >= 100 * U /\ res.water >= 100 * U /\ res.temperature >= 15 * U

\* ------------------------------------------------------------- effects
\* Each effect is given prev (the render committed before), r (the render being
\* committed) and acc (the state its setState calls and timers accumulate in);
\* it runs when one of its dependencies differs between prev and r.  An effect
\* reads the values of r only.

\* Agent control effect: makeRequest at once and then every 5 s.
AgentControlEffect(prev, r, acc) ==
  IF << prev.isAgentPlaying, prev.agent, prev.gameWon, prev.gameLost, prev.gameStarted >>
     = << r.isAgentPlaying, r.agent, r.gameWon, r.gameLost, r.gameStarted >>
    THEN acc
  ELSE IF ~r.isAgentPlaying \/ ~r.agent \/ r.gameWon \/ r.gameLost \/ ~r.gameStarted
    THEN [acc EXCEPT !.timers.agent = Off]
    ELSE [acc EXCEPT !.timers.agent = AgentPeriod, !.inflight = @ + 1]

\* Execute pending actions effect: owns the actionInterval and its closure.
ExecuteEffect(prev, r, acc) ==
  IF << prev.isAgentPlaying, prev.gameStarted >> = << r.isAgentPlaying, r.gameStarted >>
     /\ ~r.pendingNew
    THEN acc
  ELSE IF ~r.isAgentPlaying \/ Len(r.pendingActions) = 0 \/ ~r.gameStarted
    THEN [acc EXCEPT !.timers.action = Off, !.actionClosure = NoClosure]
    ELSE [acc EXCEPT !.timers.action = ActionPeriod, !.actionClosure = ClosureOf(r)]

\* Event generation effect: owns the eventInterval and the eventCooldowns it read.
EventEffectRun(prev, r, acc) ==
  IF << prev.gameWon, prev.gameLost, prev.gameStarted, prev.eventsEnabled >>
     = << r.gameWon, r.gameLost, r.gameStarted, r.eventsEnabled >>
    THEN acc
  ELSE IF ~r.gameStarted \/ r.gameWon \/ r.gameLost \/ ~r.eventsEnabled
    THEN [acc EXCEPT !.timers.event = Off, !.eventClosure = << >>]
    ELSE [acc EXCEPT !.timers.event = EventPeriod, !.eventClosure = r.eventCooldowns]

\* The drain effect without the test of gameWon: the drainInterval outlives a win.
DrainEffectAfterWin(prev, r, acc) ==
  IF << prev.gameWon, prev.gameLost, prev.gameStarted >>
     = << r.gameWon, r.gameLost, r.gameStarted >>
    THEN acc
  ELSE IF ~r.gameStarted \/ r.gameLost
    THEN [acc EXCEPT !.timers.drain = Off]
    ELSE [acc EXCEPT !.timers.drain = DrainPeriod]

\* Resource drain effect: owns the drainInterval.
DrainEffect(prev, r, acc) ==
  IF << prev.gameWon, prev.gameLost, prev.gameStarted >>
     = << r.gameWon, r.gameLost, r.gameStarted >>
    THEN acc
  ELSE IF ~r.gameStarted \/ r.gameWon \/ r.gameLost
    THEN [acc EXCEPT !.timers.drain = Off]
    ELSE [acc EXCEPT !.timers.drain = DrainPeriod]

\* The critical effect without its two setCountdownSeconds(30).
CriticalEffectCarrying(prev, r, acc) ==
  IF << prev.resources, prev.gameWon, prev.gameLost, prev.criticalTimer, prev.gameStarted >>
     = << r.resources, r.gameWon, r.gameLost, r.criticalTimer, r.gameStarted >>
     /\ ~r.resourcesNew
    THEN acc
  ELSE IF ~r.gameStarted \/ r.gameWon \/ r.gameLost
    THEN [acc EXCEPT !.timers.countdown = Off]
  ELSE IF IsCritical(r.resources)
    THEN IF r.criticalTimer = 0
      THEN [acc EXCEPT !.criticalTimer = 1, !.timers.countdown = CountdownPeriod]
      ELSE [acc EXCEPT !.timers.countdown = CountdownPeriod]
    ELSE [acc EXCEPT !.criticalTimer = 0, !.timers.countdown = Off]

\* The critical effect without gameWon in its guard.
CriticalEffectAfterWin(prev, r, acc) ==
  IF << prev.resources, prev.gameWon, prev.gameLost, prev.criticalTimer, prev.gameStarted >>
     = << r.resources, r.gameWon, r.gameLost, r.criticalTimer, r.gameStarted >>
     /\ ~r.resourcesNew
    THEN acc
  ELSE IF ~r.gameStarted \/ r.gameLost
    THEN [acc EXCEPT !.timers.countdown = Off]
  ELSE IF IsCritical(r.resources)
    THEN IF r.criticalTimer = 0
      THEN [acc EXCEPT !.criticalTimer = 1, !.countdownSeconds = 30,
                       !.timers.countdown = CountdownPeriod]
      ELSE [acc EXCEPT !.timers.countdown = CountdownPeriod]
    ELSE [acc EXCEPT !.criticalTimer = 0, !.countdownSeconds = 30,
                     !.timers.countdown = Off]

\* Combined critical check and countdown effect: owns the countdownInterval.
CriticalEffect(prev, r, acc) ==
  IF << prev.resources, prev.gameWon, prev.gameLost, prev.criticalTimer, prev.gameStarted >>
     = << r.resources, r.gameWon, r.gameLost, r.criticalTimer, r.gameStarted >>
     /\ ~r.resourcesNew
    THEN acc
  ELSE IF ~r.gameStarted \/ r.gameWon \/ r.gameLost
    THEN [acc EXCEPT !.timers.countdown = Off]
  ELSE IF IsCritical(r.resources)
    THEN IF r.criticalTimer = 0
      THEN [acc EXCEPT !.criticalTimer = 1, !.countdownSeconds = 30,
                       !.timers.countdown = CountdownPeriod]
      ELSE [acc EXCEPT !.timers.countdown = CountdownPeriod]
    ELSE [acc EXCEPT !.criticalTimer = 0, !.countdownSeconds = 30,
                     !.timers.countdown = Off]

\* Win condition check effect.
WinEffect(prev, r, acc) ==
  IF << prev.resources, prev.gameLost >> = << r.resources, r.gameLost >> /\ ~r.resourcesNew
    THEN acc
  ELSE IF r.gameLost THEN acc
  ELSE IF WinCondition(r.resources) THEN [acc EXCEPT !.gameWon = TRUE]
  ELSE acc

\* Game over cleanup effect.
GameOverEffect(prev, r, acc) ==
  IF prev.gameLost = r.gameLost THEN acc
  ELSE IF r.gameLost THEN [acc EXCEPT !.eventCooldowns = << >>]
  ELSE acc

\* The effects of one commit, in the order the component declares them.
Effects(prev, r) ==
  LET a0 == [r EXCEPT !.resourcesNew = FALSE, !.pendingNew = FALSE]
      a1 == AgentControlEffect(prev, r, a0)
      a2 == ExecuteEffect(prev, r, a1)
      a3 == EventEffectRun(prev, r, a2)
      a4 == DrainEffect(prev, r, a3)
      a5 == CriticalEffect(prev, r, a4)
      a6 == WinEffect(prev, r, a5)
  IN GameOverEffect(prev, r, a6)

\* The state cells an effect can set: a change of one of them renders again.
EffectCells(s) ==
  << s.criticalTimer, s.countdownSeconds, s.gameWon, s.eventCooldowns >>

\* Commit render r after render prev and run effects until the state is stable.
RECURSIVE Render(_, _)
Render(prev, r) ==
  LET acc == Effects(prev, r)
  IN IF EffectCells(acc) = EffectCells(r) THEN acc ELSE Render(r, acc)

Active(s) == s.gameStarted /\ ~s.gameWon /\ ~s.gameLost

\* What an observer records when the state d follows the current one after
\* elapsed ticks: sinceDecrement, the ticks of the current critical episode
\* since countdownSeconds was last decremented (or since the episode began);
\* leftAt, the countdownSeconds at which the last ended episode stopped.
Recorded(d, elapsed) ==
  [ sinceDecrement |->
      IF ~Active(d) \/ d.criticalTimer = 0 \/ criticalTimer = 0 THEN 0
      ELSE IF d.countdownSeconds # countdownSeconds THEN 0
      ELSE hist.sinceDecrement + elapsed,
    leftAt |->
      IF criticalTimer = 1 /\ d.criticalTimer = 0 THEN countdownSeconds
      ELSE hist.leftAt ]

\* The variables take the values of the stable state d, elapsed ticks later.
Install(d, elapsed) ==
  /\ d.inflight <= MaxInflight
  /\ hist' = Recorded(d, elapsed)
  /\ UNCHANGED << agentVars, observerVars >>
  /\ resources' = d.resources
  /\ credits' = d.credits
  /\ upgrades' = d.upgrades
  /\ gameStarted' = d.gameStarted
  /\ gameWon' = d.gameWon
  /\ gameLost' = d.gameLost
  /\ criticalTimer' = d.criticalTimer
  /\ countdownSeconds' = d.countdownSeconds
  /\ eventsEnabled' = d.eventsEnabled
  /\ agent' = d.agent
  /\ isAgentPlaying' = d.isAgentPlaying
  /\ pendingActions' = d.pendingActions
  /\ eventCooldowns' = d.eventCooldowns
  /\ timers' = d.timers
  /\ actionClosure' = d.actionClosure
  /\ eventClosure' = d.eventClosure
  /\ inflight' = d.inflight

\* ------------------------------------------------------------- inputs
\* The replies getNextActions can hand to setPendingActions: ten actions each.
Act(type, target) == [type |-> type, target |-> target]

DefaultActions ==
  [i \in 1..10 |->
     IF (i - 1) % 3 = 0 THEN Act("generate", "energy")
     ELSE IF (i - 1) % 3 = 1 THEN Act("generate", "oxygen")
     ELSE Act("generate", "water")]

Batches ==
  { DefaultActions,
    << Act("generate", "water"), Act("purchase", "oxygen1"), Act("generate", "oxygen"),
       Act("generate", "temperature"), Act("purchase", "energy1"), Act("generate", "energy"),
       Act("generate", "water"), Act("generate", "oxygen"), Act("generate", "energy"),
       Act("generate", "temperature") >>,
    << Act("generate", "power"), Act("purchase", "shield"), Act("generate", "oxygen"),
       Act("generate", "energy"), Act("generate", "energy"), Act("generate", "energy"),
       Act("generate", "energy"), Act("generate", "energy"), Act("generate", "energy"),
       Act("generate", "energy") >> }

\* ------------------------------------------------------------- callbacks
\* Each callback as a function of the state s it runs in: its state updates,
\* then the commit with its effects.

\* onClick of a resource button: handleAction of the latest render.
OnGenerate(s, type) == Render(s, HandleAction(ClosureOf(s), s, type))

\* onClick of an upgrade card: purchaseUpgrade of the latest render.
OnPurchase(s, id) == Render(s, PurchaseUpgrade(ClosureOf(s), s, id))

\* onClick of the events button.
OnToggleEvents(s) == Render(s, [s EXCEPT !.eventsEnabled = ~@])

\* onChange of the API key input: initializeAgent.
OnInitializeAgent(s) == Render(s, [s EXCEPT !.agent = TRUE])

\* onClick of the agent button.
OnToggleAgent(s) == Render(s, [s EXCEPT !.isAgentPlaying = ~@])

\* agentInterval fires: makeRequest.
OnAgentInterval(s) ==
  Render(s, [s EXCEPT !.timers.agent = AgentPeriod, !.inflight = @ + 1])

\* A getNextActions promise resolves: setPendingActions(actions).
OnAgentReply(s, actions) ==
  Render(s, [s EXCEPT !.inflight = @ - 1, !.pendingActions = actions,
                      !.pendingNew = TRUE])

\* The actionInterval callback returning prev: the head is executed and stays.
OnActionIntervalKeeping(s) ==
  LET rearmed == [s EXCEPT !.timers.action = ActionPeriod]
      executed == IF Len(s.pendingActions) > 0
                    THEN Dispatch(s.actionClosure, rearmed, Head(s.pendingActions))
                    ELSE rearmed
  IN Render(s, [executed EXCEPT !.pendingNew = TRUE])

\* actionInterval fires: the head of the queue is executed and removed.
OnActionInterval(s) ==
  LET rearmed == [s EXCEPT !.timers.action = ActionPeriod]
      executed == IF Len(s.pendingActions) > 0
                    THEN Dispatch(s.actionClosure, rearmed, Head(s.pendingActions))
                    ELSE rearmed
      remainingActions ==
        IF Len(s.pendingActions) > 0 THEN Tail(s.pendingActions) ELSE << >>
  IN Render(s, [executed EXCEPT !.pendingActions = remainingActions,
                                !.pendingNew = TRUE])

\* The cooldowns left after deleting those older than 15 s.
Unexpired(cooldowns, currentTime) ==
  [e \in {x \in DOMAIN cooldowns : ~(currentTime - cooldowns[x] > EventCooldown)}
     |-> cooldowns[e]]

\* events.filter(...) over the eventCooldowns the callback closed over.
AvailableEvents(cooldowns, currentTime) ==
  {e \in EventIds : e \notin DOMAIN cooldowns \/ currentTime - cooldowns[e] > EventCooldown}

\* eventInterval fires at currentTime; chosen is the event selected, or "none"
\* when Math.random() >= 0.5 or no event is available.
OnEventInterval(s, chosen, currentTime) ==
  LET rearmed == [s EXCEPT !.timers.event = EventPeriod,
                           !.eventCooldowns = Unexpired(@, currentTime)]
  IN IF chosen = "none" THEN Render(s, rearmed)
     ELSE Render(s, [rearmed EXCEPT
                       !.resources = EventEffect(chosen, @),
                       !.resourcesNew = TRUE,
                       !.eventCooldowns = [e \in DOMAIN @ \cup {chosen} |->
                                             IF e = chosen THEN currentTime ELSE @[e]]])

\* drainInterval fires.
OnDrainInterval(s) ==
  Render(s, [s EXCEPT !.timers.drain = DrainPeriod,
                      !.resources = Drained(@), !.resourcesNew = TRUE])

\* The countdown callback losing the game one tick late, below zero.
OnCountdownIntervalPastZero(s) ==
  LET rearmed == [s EXCEPT !.timers.countdown = CountdownPeriod]
  IN IF s.countdownSeconds <= 0
       THEN Render(s, [rearmed EXCEPT !.countdownSeconds = @ - 1, !.gameLost = TRUE])
       ELSE Render(s, [rearmed EXCEPT !.countdownSeconds = @ - 1])

\* The countdown callback losing the game one tick early, at 2.
OnCountdownIntervalEarly(s) ==
  LET rearmed == [s EXCEPT !.timers.countdown = CountdownPeriod]
  IN IF s.countdownSeconds <= 2
       THEN Render(s, [rearmed EXCEPT !.countdownSeconds = 0, !.gameLost = TRUE])
       ELSE Render(s, [rearmed EXCEPT !.countdownSeconds = @ - 1])

\* countdownInterval fires.
OnCountdownInterval(s) ==
  LET rearmed == [s EXCEPT !.timers.countdown = CountdownPeriod]
  IN IF s.countdownSeconds <= 1
       THEN Render(s, [rearmed EXCEPT !.countdownSeconds = 0, !.gameLost = TRUE])
       ELSE Render(s, [rearmed EXCEPT !.countdownSeconds = @ - 1])

TimerNames == {"agent", "action", "event", "drain", "countdown"}

NoTimerDue(s) == \A t \in TimerNames : s.timers[t] # 0

\* TickMs pass: every armed timer comes one tick closer.
Elapse(s) ==
  [s EXCEPT !.timers = [t \in TimerNames |-> IF @[t] = Off THEN Off ELSE @[t] - 1]]

\* ------------------------------------------------------------- actions
\* A user input: counted against the bound on inputs.
UserInput == clicks < MaxClicks /\ clicks' = clicks + 1 /\ now' = now

Generate(type) == UserInput /\ Install(OnGenerate(Cur, type), 0)

Purchase(id) == UserInput /\ Install(OnPurchase(Cur, id), 0)

ToggleEvents == UserInput /\ Install(OnToggleEvents(Cur), 0)

\* The API key input is shown while there is no agent.
InitializeAgent == ~agent /\ UserInput /\ Install(OnInitializeAgent(Cur), 0)

\* The agent button is disabled without an agent and once won or lost.
ToggleAgent ==
  /\ agent /\ ~gameWon /\ ~gameLost
  /\ UserInput
  /\ Install(OnToggleAgent(Cur), 0)

AgentRequest ==
  /\ timers.agent = 0
  /\ Install(OnAgentInterval(Cur), 0)
  /\ UNCHANGED << now, clicks >>

AgentReply(actions) ==
  /\ inflight > 0
  /\ Install(OnAgentReply(Cur, actions), 0)
  /\ UNCHANGED << now, clicks >>

ActionTick ==
  /\ timers.action = 0
  /\ Install(OnActionInterval(Cur), 0)
  /\ UNCHANGED << now, clicks >>

EventTick(chosen) ==
  /\ timers.event = 0
  /\ chosen \in AvailableEvents(eventClosure, now) \cup {"none"}
  /\ Install(OnEventInterval(Cur, chosen, now), 0)
  /\ UNCHANGED << now, clicks >>

DrainTick ==
  /\ timers.drain = 0
  /\ Install(OnDrainInterval(Cur), 0)
  /\ UNCHANGED << now, clicks >>

CountdownTick ==
  /\ timers.countdown = 0
  /\ Install(OnCountdownInterval(Cur), 0)
  /\ UNCHANGED << now, clicks >>

Tick ==
  /\ now < MaxTime
  /\ NoTimerDue(Cur)
  /\ Install(Elapse(Cur), 1)
  /\ now' = now + 1
  /\ clicks' = clicks

\* ------------------------------------------------------------- sessions
\* The component after mount: no effect passes its guard, no timer is armed.
Fresh ==
  [ resources |-> [oxygen |-> 0, water |-> 0, temperature |-> -60 * U,
                   energy |-> 100 * U, extra |-> FALSE],
    credits |-> 30,
    upgrades |-> [id \in UpgradeIds |-> FALSE],
    gameStarted |-> FALSE, gameWon |-> FALSE, gameLost |-> FALSE,
    criticalTimer |-> 0, countdownSeconds |-> 30,
    eventsEnabled |-> FALSE, agent |-> FALSE, isAgentPlaying |-> FALSE,
    pendingActions |-> << >>, eventCooldowns |-> << >>,
    timers |-> [t \in TimerNames |-> Off],
    actionClosure |-> NoClosure, eventClosure |-> << >>,
    inflight |-> 0, resourcesNew |-> FALSE, pendingNew |-> FALSE ]

\* One callback of a recorded session; a timer callback only when it is due.
Played(s, cb) ==
  CASE cb[1] = "generate" -> OnGenerate(s, cb[2])
    [] cb[1] = "purchase" -> OnPurchase(s, cb[2])
    [] cb[1] = "toggleEvents" -> OnToggleEvents(s)
    [] cb[1] = "initializeAgent" /\ ~s.agent -> OnInitializeAgent(s)
    [] cb[1] = "toggleAgent" /\ s.agent -> OnToggleAgent(s)
    [] cb[1] = "countdown" /\ s.timers.countdown = 0 -> OnCountdownInterval(s)
    [] cb[1] = "drain" /\ s.timers.drain = 0 -> OnDrainInterval(s)
    [] cb[1] = "event" /\ s.timers.event = 0
         /\ cb[2] \in AvailableEvents(s.eventClosure, cb[3]) \cup {"none"}
         -> OnEventInterval(s, cb[2], cb[3])
    [] cb[1] = "tick" /\ NoTimerDue(s) -> Elapse(s)

\* The state the callbacks lo..hi of a recorded session leave, from s.
RECURSIVE Replay(_, _, _, _)
Replay(s, session, lo, hi) ==
  IF lo > hi THEN s
  ELSE IF lo = hi THEN Played(s, session[lo])
  ELSE LET mid == (lo + hi) \div 2
       IN CHOOSE end \in {Replay(half, session, mid + 1, hi) :
                            half \in {Replay(s, session, lo, mid)}} : TRUE

\* The state a recorded session leaves, from the mounted component.
After(session) == Replay(Fresh, session, 1, Len(session))

\* block, n times over.
Repeat(block, n) == [i \in 1..(n * Len(block)) |-> block[((i - 1) % Len(block)) + 1]]

\* The user starts the agent: key entered, agent button clicked.
StartAgent == << <<"initializeAgent">>, <<"toggleAgent">> >>

\* 28 clicks without a pause (17 generations of oxygen and water, 11 of energy)
\* that leave oxygen 21.42, water 17.82 and energy 18, then 15 seconds left to
\* the drain; agent started 3 seconds before the end, its request unanswered.
\* Leaves oxygen 10.428, water 10.492, energy 15 and 86 credits.
EdgeSession ==
  Repeat(<< <<"generate", "oxygen">>, <<"generate", "energy">>,
            <<"generate", "water">>, <<"generate", "energy">> >>, 5)
  \o << <<"generate", "oxygen">>, <<"generate", "energy">> >>
  \o Repeat(<< <<"generate", "oxygen">>, <<"generate", "water">> >>, 3)
  \o Repeat(Repeat(<< <<"tick">> >>, 6) \o << <<"drain">> >>, 4)
  \o StartAgent
  \o Repeat(<< <<"tick">> >>, 6)
  \o << <<"drain">> >>

\* 28 seconds of an untouched critical session (a countdown tick every second,
\* a drain tick every third), then one click on energy; agent started.
\* Leaves oxygen 0, water 0, energy 100 and countdownSeconds 2.
NearLossSession ==
  << <<"generate", "energy">> >>
  \o Repeat(Repeat(<< <<"tick">>, <<"tick">>, <<"countdown">> >>, 3) \o << <<"drain">> >>, 9)
  \o << <<"tick">>, <<"tick">>, <<"countdown">>, <<"generate", "energy">> >>
  \o StartAgent

\* 1375 clicks without a pause: energy1 bought from the credits of 60 clicks on
\* energy; temperature raised to 15, oxygen to 100 and water to 99 by clicks at
\* full energy, each followed by a click on energy; energy spent down to 30 on
\* oxygen, water raised to 99.9, energy spent down to 10; the other seven
\* upgrades bought; agent started.
NearWinSession ==
  Repeat(<< <<"generate", "energy">> >>, 60)
  \o << <<"purchase", "energy1">> >>
  \o Repeat(<< <<"generate", "temperature">>, <<"generate", "energy">> >>, 250)
  \o Repeat(<< <<"generate", "oxygen">>, <<"generate", "energy">> >>, 34)
  \o Repeat(<< <<"generate", "water">>, <<"generate", "energy">> >>, 33)
  \o Repeat(<< <<"generate", "oxygen">> >>, 7)
  \o << <<"generate", "water">>, <<"generate", "oxygen">> >>
  \o << <<"purchase", "oxygen1">>, <<"purchase", "water1">>, <<"purchase", "temp1">>,
        <<"purchase", "oxygen2">>, <<"purchase", "water2">>, <<"purchase", "temp2">>,
        <<"purchase", "energy2">> >>
  \o StartAgent

\* A session started by a click on energy with events switched on at once,
\* then left alone for 3 seconds.
EventsSession ==
  << <<"generate", "energy">>, <<"toggleEvents">> >>
  \o Repeat(<< <<"tick">>, <<"tick">>, <<"countdown">> >>, 3)
  \o << <<"drain">> >>

\* A session started by a click on energy with events switched on at once and
\* left alone for 9 seconds; its first event roll, 3 seconds before the end
\* (Date.now() = -3 s on the clock of the run), selects solar_flare.
CooldownSession ==
  << <<"generate", "energy">>, <<"toggleEvents">> >>
  \o Repeat(<< <<"tick">>, <<"tick">>, <<"countdown">> >>, 3)
  \o << <<"drain">> >>
  \o Repeat(<< <<"tick">>, <<"tick">>, <<"countdown">> >>, 3)
  \o << <<"drain">>, <<"event", "solar_flare", 0 - 3000 \div TickMs>> >>
  \o Repeat(<< <<"tick">>, <<"tick">>, <<"countdown">> >>, 3)
  \o << <<"drain">> >>

Sessions ==
  { << >>, EdgeSession, NearLossSession, NearWinSession, EventsSession, CooldownSession }

\* ------------------------------------------------------------- GameAgent
\* A turn of the conversation log; seq numbers the turns in the order they
\* were pushed and stands for the content.
Turn(role, seq) == [role |-> role, seq |-> seq]

\* messageHistory after the constructor.
NewLog == << Turn("system", 0) >>

\* An entry of the actions array: a string, given by its characters (each one
\* ":" or a maximal run of other characters), or something that is no string.
Str(chars) == [isString |-> TRUE, chars |-> chars]

NotAString == [isString |-> FALSE, chars |-> << >>]

\* The target of an action string without a second piece.
Undefined == "(undefined)"

\* actionStr.split(":") from character i on, piece being the piece begun.
RECURSIVE SplitFrom(_, _, _)
SplitFrom(chars, i, piece) ==
  IF i > Len(chars) THEN << piece >>
  ELSE IF chars[i] = ":" THEN << piece >> \o SplitFrom(chars, i + 1, "")
  ELSE SplitFrom(chars, i + 1, chars[i])

Split(chars) == SplitFrom(chars, 1, "")

\* parseAction(actionStr)
ParseAction(actionStr) ==
  LET parts == Split(actionStr.chars)
      type == parts[1]
      target == IF Len(parts) >= 2 THEN parts[2] ELSE Undefined
  IN IF type = "generate" \/ type = "purchase" THEN Act(type, target)
     ELSE Act("generate", "energy")

\* What openai.chat.completions.create can do: throw, or resolve with a
\* message content that is absent or empty, no JSON, or a JSON value.
Throws == [kind |-> "throws"]

Content(text) == [kind |-> "content", text |-> text]

NoContent == [form |-> "none"]

Garbage == [form |-> "garbage"]

Json(value) == [form |-> "json", value |-> value]

JsonNull == [type |-> "null"]

ObjectWithout == [type |-> "object", hasActions |-> FALSE]

ObjectWithScalar == [type |-> "object", hasActions |-> TRUE, isArray |-> FALSE]

ObjectWith(items) ==
  [type |-> "object", hasActions |-> TRUE, isArray |-> TRUE, items |-> items]

\* Array.isArray(parsedResponse.actions) && parsedResponse.actions.length === 10
TenActions(value) ==
  /\ value.type = "object" /\ value.hasActions /\ value.isArray
  /\ Len(value.items) = 10

\* The inner try without the test of the length.
ParsedOfAnyLength(value) ==
  IF value.type = "null" THEN DefaultActions
  ELSE IF ~(value.type = "object" /\ value.hasActions /\ value.isArray) THEN DefaultActions
  ELSE IF \E i \in 1..Len(value.items) : ~value.items[i].isString THEN DefaultActions
  ELSE [i \in 1..Len(value.items) |-> ParseAction(value.items[i])]

\* The body of the inner try for the parsed value; a TypeError (the value is
\* null, or an entry has no split method) is caught and the default returned.
Parsed(value) ==
  IF value.type = "null" THEN DefaultActions
  ELSE IF ~TenActions(value) THEN DefaultActions
  ELSE IF \E i \in 1..10 : ~value.items[i].isString THEN DefaultActions
  ELSE [i \in 1..10 |-> ParseAction(value.items[i])]

\* The log after the push of a user turn and the cap.
Pushed(history) ==
  LET pushed == Append(history, Turn("user", history[Len(history)].seq + 1))
  IN IF Len(pushed) > 100
       THEN << pushed[1] >> \o SubSeq(pushed, Len(pushed) - 98, Len(pushed))
       ELSE pushed

\* getNextActions without the push of the assistant turn.
GetNextActionsUnlogged(history, outcome) ==
  LET capped == Pushed(history)
  IN IF outcome.kind = "throws" \/ outcome.text.form # "json"
       THEN [history |-> capped, result |-> DefaultActions]
       ELSE [history |-> capped, result |-> Parsed(outcome.text.value)]

\* getNextActions on the log history when the remote call does outcome: the
\* log it leaves and the actions it resolves to.
GetNextActions(history, outcome) ==
  LET capped == Pushed(history)
      replied == Append(capped, Turn("assistant", capped[Len(capped)].seq + 1))
  IN IF outcome.kind = "throws"
       THEN [history |-> capped, result |-> DefaultActions]
     ELSE IF outcome.text.form = "none"
       THEN [history |-> capped, result |-> DefaultActions]
     ELSE IF outcome.text.form # "json"
       THEN [history |-> replied, result |-> DefaultActions]
     ELSE [history |-> replied, result |-> Parsed(outcome.text.value)]

\* Action strings a reply is made of.
GoodStrings ==
  << Str(<< "generate", ":", "energy" >>), Str(<< "generate", ":", "oxygen" >>),
     Str(<< "purchase", ":", "oxygen1" >>), Str(<< "generate", ":", "water" >>),
     Str(<< "generate", ":", "temperature" >>), Str(<< "purchase", ":", "energy1" >>),
     Str(<< "generate", ":", "energy", ":", "now" >>) >>

BadStrings ==
  { Str(<< "fly", ":", "energy" >>), Str(<< "generate" >>), Str(<< "purchase" >>),
    Str(<< "generate", ":" >>), Str(<< "generate", ":", "power" >>),
    Str(<< >>), Str(<< ":", "energy" >>) }

\* n good action strings.
GoodItems(n) == [i \in 1..n |-> GoodStrings[((i - 1) % Len(GoodStrings)) + 1]]

\* The message contents the remote call is given to resolve with.
Texts ==
  { NoContent, Garbage, Json(JsonNull), Json(ObjectWithout), Json(ObjectWithScalar) }
  \cup { Json(ObjectWith(GoodItems(n))) : n \in {0, 9, 10, 11} }
  \cup { Json(ObjectWith([GoodItems(10) EXCEPT ![j] = bad])) :
           j \in {1, 5, 10}, bad \in BadStrings \cup {NotAString} }

\* No call made yet.
NoOutcome == [kind |-> "none"]

\* A getNextActions call whose remote call does outcome.
GetNextActionsCall(outcome) ==
  /\ calls < MaxCalls
  /\ LET done == GetNextActions(messageHistory, outcome)
     IN /\ messageHistory' = done.history
        /\ returned' = done.result
  /\ lastOutcome' = outcome
  /\ calls' = calls + 1
  /\ UNCHANGED << appVars, observerVars >>

RemoteThrows == GetNextActionsCall(Throws)

RemoteResolves(text) == GetNextActionsCall(Content(text))

\* The log of an agent after n calls answered with ten good action strings.
RECURSIVE LogAfter(_)
LogAfter(n) ==
  IF n = 0 THEN NewLog
  ELSE CHOOSE log \in {GetNextActions(before, Content(Json(ObjectWith(GoodItems(10))))).history :
                         before \in {LogAfter(n - 1)}} : TRUE

\* Calls behind the agents the run starts from: a new agent, and agents whose
\* log holds 97 and 99 turns.
RecordedCalls == {0, 48, 49}

\* ------------------------------------------------------------- GameObserver
\* ANALYSIS_INTERVAL, and the five minutes of history kept, in ms.
AnalysisInterval == 10000

HistoryWindow == 5 * 60 * 1000

\* Date.now() when the observer is constructed, counted from a recent origin.
StartClock == 1000 * 1000

\* An entry of gameHistory: the timestamp, and the game state given by the
\* number of the call that pushed it.
Snapshot(timestamp, call) == [timestamp |-> timestamp, call |-> call]

\* The observer after the constructor; contacts lists the times of the calls
\* that went to the remote service, last is the call made last.
NewObserver ==
  [ gameHistory |-> << >>, lastAnalysisTime |-> 0, clock |-> StartClock,
    awaiting |-> 0, calls |-> 0, contacts |-> << >>,
    last |-> [time |-> 0, throttled |-> FALSE], analysis |-> "none" ]

\* The filter keeping also the snapshot taken exactly five minutes ago.
KeptInclusive(gameHistory, call, currentTime) ==
  LET fiveMinutesAgo == currentTime - HistoryWindow
      IsRecent(h) == h.timestamp >= fiveMinutesAgo
  IN SelectSeq(Append(gameHistory, Snapshot(currentTime, call)), IsRecent)

\* gameHistory after the push and the filter of a call at currentTime.
Kept(gameHistory, call, currentTime) ==
  LET fiveMinutesAgo == currentTime - HistoryWindow
      IsRecent(h) == h.timestamp > fiveMinutesAgo
  IN SelectSeq(Append(gameHistory, Snapshot(currentTime, call)), IsRecent)

\* The throttle test of an observer that stamps lastAnalysisTime when the
\* reply arrives: a call awaiting its reply does not throttle.
ThrottledOnReply(o, currentTime) ==
  o.awaiting = 0 /\ currentTime - o.lastAnalysisTime < AnalysisInterval

\* currentTime - this.lastAnalysisTime < this.ANALYSIS_INTERVAL
Throttled(o, currentTime) == currentTime - o.lastAnalysisTime < AnalysisInterval

\* getAnalysis called at currentTime, up to its return of the default analysis
\* or to the await of the remote call.
GetAnalysis(o, currentTime) ==
  LET pushed == [o EXCEPT !.clock = currentTime, !.calls = @ + 1,
                          !.gameHistory = Kept(@, o.calls + 1, currentTime)]
  IN IF Throttled(o, currentTime)
       THEN [pushed EXCEPT !.last = [time |-> currentTime, throttled |-> TRUE],
                           !.analysis = "default"]
       ELSE [pushed EXCEPT !.last = [time |-> currentTime, throttled |-> FALSE],
                           !.lastAnalysisTime = currentTime,
                           !.awaiting = @ + 1,
                           !.contacts = Append(@, currentTime)]

\* The remote call of a getAnalysis settles: the analysis returned.
Settled(o, outcome) ==
  [o EXCEPT !.awaiting = @ - 1,
            !.analysis = IF outcome = "analysis" THEN "parsed" ELSE "default"]

\* Milliseconds between one getAnalysis call and the next.
Delays == {0, 1, AnalysisInterval - 1, AnalysisInterval,
           HistoryWindow - AnalysisInterval, HistoryWindow}

\* What the remote call of the observer can do.
AnalysisOutcomes == {"throws", "none", "garbage", "noAnalysis", "analysis"}

GetAnalysisCall(delay) ==
  /\ observer.calls < MaxAnalyses
  /\ observer' = GetAnalysis(observer, observer.clock + delay)
  /\ UNCHANGED << appVars, agentVars >>

AnalysisReply(outcome) ==
  /\ observer.awaiting > 0
  /\ observer' = Settled(observer, outcome)
  /\ UNCHANGED << appVars, agentVars >>

\* ------------------------------------------------------------- specification
\* A session recorded so far; the clock and the input count start from it.
StartsFrom(d) ==
  /\ resources = d.resources
  /\ credits = d.credits
  /\ upgrades = d.upgrades
  /\ gameStarted = d.gameStarted
  /\ gameWon = d.gameWon
  /\ gameLost = d.gameLost
  /\ criticalTimer = d.criticalTimer
  /\ countdownSeconds = d.countdownSeconds
  /\ eventsEnabled = d.eventsEnabled
  /\ agent = d.agent
  /\ isAgentPlaying = d.isAgentPlaying
  /\ pendingActions = d.pendingActions
  /\ eventCooldowns = d.eventCooldowns
  /\ timers = d.timers
  /\ actionClosure = d.actionClosure
  /\ eventClosure = d.eventClosure
  /\ inflight = d.inflight
  /\ now = 0
  /\ clicks = 0
  /\ hist = [ sinceDecrement |->
                IF d.timers.countdown = Off THEN 0
                ELSE CountdownPeriod - d.timers.countdown,
              leftAt |-> 30 ]

Init ==
  /\ \E session \in Sessions : StartsFrom(After(session))
  /\ messageHistory = NewLog
  /\ returned = << >>
  /\ lastOutcome = NoOutcome
  /\ calls = 0
  /\ observer = NewObserver

Next ==
  \/ \E type \in ResourceTypes : Generate(type)
  \/ \E id \in UpgradeIds : Purchase(id)
  \/ ToggleEvents
  \/ InitializeAgent
  \/ ToggleAgent
  \/ AgentRequest
  \/ \E actions \in Batches : AgentReply(actions)
  \/ ActionTick
  \/ \E chosen \in EventIds \cup {"none"} : EventTick(chosen)
  \/ DrainTick
  \/ CountdownTick
  \/ Tick

Spec == Init /\ [][Next]_vars

\* The GameAgent on its own: getNextActions called on a recorded log with
\* every outcome of the remote call; the component stays as mounted.
AgentInit ==
  /\ StartsFrom(Fresh)
  /\ messageHistory \in {LogAfter(n) : n \in RecordedCalls}
  /\ returned = << >>
  /\ lastOutcome = NoOutcome
  /\ calls = 0
  /\ observer = NewObserver

AgentNext ==
  \/ RemoteThrows
  \/ \E text \in Texts : RemoteResolves(text)

SpecAgent == AgentInit /\ [][AgentNext]_vars

\* The GameObserver on its own: getAnalysis called at non-decreasing times,
\* the remote calls settling in between.
ObserverInit ==
  /\ StartsFrom(Fresh)
  /\ messageHistory = NewLog
  /\ returned = << >>
  /\ lastOutcome = NoOutcome
  /\ calls = 0
  /\ observer = NewObserver

ObserverNext ==
  \/ \E delay \in Delays : GetAnalysisCall(delay)
  \/ \E outcome \in AnalysisOutcomes : AnalysisReply(outcome)

SpecObserver == ObserverInit /\ [][ObserverNext]_vars

TypeOK ==
  /\ resources.energy % (U \div 100) = 0
  /\ clicks \in 0..MaxClicks /\ now \in 0..MaxTime /\ inflight \in 0..MaxInflight
  /\ countdownSeconds \in 0..30 /\ criticalTimer \in {0, 1}
  /\ hist.sinceDecrement \in 0..MaxTime + CountdownPeriod /\ hist.leftAt \in 0..30

\* ------------------------------------------------------------- properties
\* The session is active: started, not won, not lost.
SessionActive == gameStarted /\ ~gameWon /\ ~gameLost

\* One of the three monitored resources is at or below 5.
AtOrBelowFive ==
  resources.oxygen <= 5 * U \/ resources.water <= 5 * U \/ resources.energy <= 5 * U

\* The actionInterval fires and its head action is generate on type.
AgentGenerates(type) ==
  /\ ActionTick
  /\ Len(pendingActions) > 0
  /\ Head(pendingActions) = Act("generate", type)

\* A generate call on type executes: a click or an agent-dispatched action.
GenerateCall(type) == Generate(type) \/ AgentGenerates(type)

\* C1: in every reachable state oxygen, water and energy are within [0,100]
\* and temperature is within [-60,50].
C1_ResourcesInRange ==
  /\ resources.oxygen >= 0 /\ resources.oxygen <= 100 * U
  /\ resources.water >= 0 /\ resources.water <= 100 * U
  /\ resources.energy >= 0 /\ resources.energy <= 100 * U
  /\ resources.temperature >= -60 * U /\ resources.temperature <= 50 * U

\* C1, its case: two drain ticks have acted on oxygen 0, water 0 and
\* temperature -60, which their floors kept in range.
C1_DrainFloored ==
  /\ gameStarted
  /\ resources.oxygen = 0 /\ resources.water = 0 /\ resources.temperature = -60 * U
  /\ resources.energy = 100 * U - 2 * ((6 * U) \div 10)
  /\ now >= DrainPeriod

\* C2: once gameWon or gameLost is true, resources, credits and the purchased
\* flags never change again, whatever callback fires.
C2_TerminalFrozen ==
  [][(gameWon \/ gameLost) =>
       (resources' = resources /\ credits' = credits /\ upgrades' = upgrades)]_vars

\* C3: while a critical episode of an active session lasts, countdownSeconds
\* is decremented once per elapsed second, whatever else mutates the resources:
\* the episode never goes more than two seconds without a decrement.
C3_CountdownEverySecond ==
  (SessionActive /\ criticalTimer = 1) => hist.sinceDecrement <= 2 * CountdownPeriod

\* The part of C4 that holds in a state: an active session with oxygen, water
\* and energy above 5 is Safe, its countdown at 30 and no countdown tick armed.
RecoveredIsSafe ==
  (SessionActive /\ ~AtOrBelowFive) =>
    (criticalTimer = 0 /\ countdownSeconds = 30 /\ timers.countdown = Off)

\* C4: when oxygen, water and energy are all above 5 again the state is Safe
\* with countdownSeconds back at 30 and no countdown tick left to fire; gameLost
\* is only ever set in a critical state; a critical episode starts from 30.
C4_RecoveryResets ==
  /\ RecoveredIsSafe
  /\ [][ /\ RecoveredIsSafe'
         /\ (~gameLost /\ gameLost') => (criticalTimer = 1 /\ AtOrBelowFive)
         /\ (criticalTimer = 0 /\ criticalTimer' = 1) => countdownSeconds' = 30 ]_vars

\* C4, its case: a critical episode at 30 after an earlier episode ended with
\* countdownSeconds below 30.
C4_SecondEpisode ==
  /\ SessionActive /\ criticalTimer = 1
  /\ countdownSeconds = 30
  /\ hist.leftAt < 30

\* C5: in an active session the state is Critical exactly when oxygen <= 5 or
\* water <= 5 or energy <= 5; temperature plays no part.
C5_CriticalIff ==
  SessionActive =>
    (criticalTimer = 1 <=>
       (resources.oxygen <= 5 * U \/ resources.water <= 5 * U \/ resources.energy <= 5 * U))

\* C5, its case: Critical with energy exactly 5, oxygen and water above 5.
C5_CriticalAtFive ==
  /\ SessionActive /\ criticalTimer = 1
  /\ resources.energy = 5 * U
  /\ resources.oxygen > 5 * U /\ resources.water > 5 * U

\* The part of C6 that holds in a state: not lost, oxygen >= 100, water >= 100
\* and temperature >= 15 mean won.
ThresholdsMeanWon ==
  (~gameLost /\ resources.oxygen >= 100 * U /\ resources.water >= 100 * U
             /\ resources.temperature >= 15 * U) => gameWon

\* C6: gameWon becomes true exactly when gameLost is false and the resources
\* satisfy oxygen >= 100, water >= 100 and temperature >= 15.
C6_WonIff ==
  /\ ThresholdsMeanWon
  /\ [][ /\ ThresholdsMeanWon'
         /\ (~gameWon /\ gameWon') =>
              (~gameLost' /\ resources'.oxygen >= 100 * U /\ resources'.water >= 100 * U
                          /\ resources'.temperature >= 15 * U) ]_vars

\* C6, its case: won at exactly oxygen 100, water 100, temperature 15.
C6_WonAtThresholds ==
  /\ gameWon
  /\ resources.oxygen = 100 * U /\ resources.water = 100 * U
  /\ resources.temperature = 15 * U

\* The part of C7 that holds in a state: never won and lost together, and
\* once won no countdown tick is left to fire.
WonExcludesLost == ~(gameWon /\ gameLost) /\ (gameWon => timers.countdown = Off)

\* C7: gameWon and gameLost are sticky and never both true; once won the
\* countdown cannot set gameLost, also when the winning state is critical.
C7_TerminalFlags ==
  /\ WonExcludesLost
  /\ [][ /\ WonExcludesLost'
         /\ gameWon => gameWon'
         /\ gameLost => gameLost' ]_vars

\* C7, its case: won in a state that is also critical (energy 0), a second or
\* more of the run gone.
C7_WonWhileCritical ==
  /\ gameWon /\ ~gameLost
  /\ resources.energy <= 5 * U
  /\ criticalTimer = 1
  /\ now >= CountdownPeriod

\* C8: in an active session generate(energy) always succeeds, and generate on
\* oxygen, water or temperature changes no resource and awards no credits when
\* energy is below 10 as the call executes.
C8_EnergyGate ==
  [][ /\ \A type \in {"oxygen", "water", "temperature"} :
           (GenerateCall(type) /\ resources.energy < 10 * U) =>
             (resources' = resources /\ credits' = credits)
      /\ (GenerateCall("energy") /\ SessionActive) =>
           (credits' = credits + 2 /\ resources'.energy >= resources.energy) ]_vars

\* What C9 says generate(type) leaves of the resources res under the purchased
\* flags ups; the multiplier in hundredths, energy / 100 in ten-thousandths.
Claimed(res, ups, type) ==
  LET multiplier == GetMultiplier(ups, type)
      efficiency == res.energy \div (U \div 100)
      gain == IF type = "temperature" THEN (3 * multiplier * efficiency) \div 10
              ELSE 3 * multiplier * efficiency
  IN IF type = "energy"
       THEN [res EXCEPT !.energy = Min(100 * U, @ + 8 * multiplier * (U \div 100))]
       ELSE [res EXCEPT ![type] = Min(IF type = "temperature" THEN 50 * U ELSE 100 * U,
                                      @ + gain),
                        !.energy = Max(0, @ - 10 * U)]

\* C9: a generate call that succeeds (2 credits awarded) changes the resources
\* by the stated formula, the multiplier being that of the upgrades purchased.
C9_GenerateFormula ==
  [][ \A type \in ResourceTypes :
        (GenerateCall(type) /\ credits' # credits) =>
          (credits' = credits + 2 /\ resources' = Claimed(resources, upgrades, type)) ]_vars

\* C10: credits is never negative.
C10_CreditsNonNegative == credits >= 0

\* The actionInterval fires and its head action is purchase of upgrade id.
AgentPurchases(id) ==
  /\ ActionTick
  /\ Len(pendingActions) > 0
  /\ Head(pendingActions) = Act("purchase", id)

\* A purchase call on upgrade id executes: a click or an agent-dispatched action.
PurchaseCall(id) == Purchase(id) \/ AgentPurchases(id)

\* C11: a purchase attempt on an upgrade that is already purchased changes
\* neither credits nor upgrades nor resources, from a click or from the agent.
C11_PurchaseIdempotent ==
  [][ \A id \in UpgradeIds :
        (PurchaseCall(id) /\ upgrades[id]) =>
          (credits' = credits /\ upgrades' = upgrades /\ resources' = resources) ]_vars

\* The purchased flag of upgrade id goes from false to true in this step.
Bought(id) == ~upgrades[id] /\ upgrades'[id]

\* C12: a purchased flag never goes back to false; it becomes true only by a
\* purchase call in an active session with credits >= cost as the call
\* executes, which deducts exactly cost; credits is never deducted otherwise;
\* a purchase call with credits < cost changes neither credits nor any flag.
C12_PurchaseOnce ==
  [][ /\ \A id \in UpgradeIds :
           /\ upgrades[id] => upgrades'[id]
           /\ Bought(id) =>
                /\ PurchaseCall(id)
                /\ gameStarted' /\ ~gameWon /\ ~gameLost
                /\ credits >= UpgradeOf(id).cost
                /\ credits' = credits - UpgradeOf(id).cost
           /\ (PurchaseCall(id) /\ credits < UpgradeOf(id).cost) =>
                (credits' = credits /\ upgrades' = upgrades)
      /\ credits' < credits => \E id \in UpgradeIds : Bought(id) ]_vars

\* The catalog entries of resource type type that are purchased under ups.
PurchasedOfType(ups, type) ==
  {i \in DOMAIN UpgradeCatalog :
     UpgradeCatalog[i].resourceType = type /\ ups[UpgradeCatalog[i].id]}

\* The product of the multipliers of the catalog entries S, in hundredths:
\* 100 (that is 1) for none.
RECURSIVE ProductOver(_)
ProductOver(S) ==
  IF S = {} THEN 100
  ELSE LET i == CHOOSE j \in S : TRUE
       IN (UpgradeCatalog[i].multiplier * ProductOver(S \ {i})) \div 100

\* C13: the multiplier a generate call applies is the product of the
\* multipliers of the upgrades of its type purchased as the call executes.
C13_MultiplierAtExecution ==
  [][ \A type \in ResourceTypes :
        (GenerateCall(type) /\ credits' # credits) =>
          LET multiplier == ProductOver(PurchasedOfType(upgrades, type))
          IN resources' =
               IF type = "energy"
                 THEN [resources EXCEPT !.energy = Min(100 * U, @ + EnergyGain(multiplier))]
                 ELSE Generated(resources, type, multiplier) ]_vars

\* C14: an event is never selected and applied when it was last triggered less
\* than 15 seconds before the event roll; with every event on cooldown no
\* event is applied.
C14_CooldownRespected ==
  [][ \A e \in EventIds :
        (e \in DOMAIN eventCooldowns /\ now - eventCooldowns[e] < EventCooldown) =>
          ~EventTick(e) ]_vars


\* A getNextActions call has returned.
Called == calls > 0

\* The fixed fallback: generate energy, oxygen, water, cyclically to length 10.
CyclicFallback ==
  [i \in 1..10 |-> Act("generate", << "energy", "oxygen", "water" >>[((i - 1) % 3) + 1])]

\* C15: whatever the remote call does, getNextActions returns exactly 10
\* actions, each with kind generate or purchase and with a target.
C15_TenTargetedActions ==
  Called =>
    /\ Len(returned) = 10
    /\ \A i \in 1..Len(returned) :
         /\ returned[i].type \in {"generate", "purchase"}
         /\ returned[i].target # Undefined

\* The remote call threw, gave no content, gave text that is no JSON, or JSON
\* whose actions field is missing, no array, or not of length 10.
Failed(outcome) ==
  \/ outcome.kind = "throws"
  \/ /\ outcome.kind = "content"
     /\ \/ outcome.text.form # "json"
        \/ ~TenActions(outcome.text.value)

\* The reply of ten good action strings, and the actions they spell.
GoodReply == Content(Json(ObjectWith(GoodItems(10))))

GoodActions ==
  << Act("generate", "energy"), Act("generate", "oxygen"), Act("purchase", "oxygen1"),
     Act("generate", "water"), Act("generate", "temperature"), Act("purchase", "energy1"),
     Act("generate", "energy"), Act("generate", "energy"), Act("generate", "oxygen"),
     Act("purchase", "oxygen1") >>

\* C16: a call whose remote call fails returns the cyclic fallback of
\* generate energy, oxygen, water to length 10, and a later call answered with
\* ten good action strings returns those actions whatever failed before it.
C16_FallbackOnFailure ==
  /\ (Called /\ Failed(lastOutcome)) => returned = CyclicFallback
  /\ (Called /\ lastOutcome = GoodReply) => returned = GoodActions

\* The log ends with two user turns and an assistant turn: the call before the
\* last one got no reply, the last one did.
RepliedAfterFailure ==
  /\ Len(messageHistory) >= 3
  /\ messageHistory[Len(messageHistory) - 2].role = "user"
  /\ messageHistory[Len(messageHistory) - 1].role = "user"
  /\ messageHistory[Len(messageHistory)].role = "assistant"

C16_GoodReplyAfterFailure ==
  /\ calls = 2 /\ RepliedAfterFailure
  /\ lastOutcome = GoodReply /\ returned = GoodActions

\* A reply with exactly ten action strings.
TenStrings(outcome) ==
  /\ outcome.kind = "content" /\ outcome.text.form = "json"
  /\ TenActions(outcome.text.value)
  /\ \A i \in 1..10 : outcome.text.value.items[i].isString

\* An action string is well formed: a known kind, the separator and a target,
\* the target of a generate being one of the four resources.
WellFormed(entry) ==
  /\ Len(entry.chars) = 3
  /\ entry.chars[1] \in {"generate", "purchase"}
  /\ entry.chars[2] = ":" /\ entry.chars[3] # ":"
  /\ entry.chars[1] = "generate" => entry.chars[3] \in ResourceTypes

\* C17: of a reply with exactly ten action strings, each malformed entry comes
\* back as generate:energy and each well-formed entry as the action it spells,
\* at its position.
C17_MalformedEntriesReplaced ==
  (Called /\ TenStrings(lastOutcome)) =>
    /\ Len(returned) = 10
    /\ \A i \in 1..10 :
         LET entry == lastOutcome.text.value.items[i]
         IN returned[i] = IF WellFormed(entry) THEN Act(entry.chars[1], entry.chars[3])
                          ELSE Act("generate", "energy")

\* C18: the conversation log holds at most 100 turns, its first turn is the
\* system instruction, and the turns after it are the most recent ones in the
\* order they were added.
C18_LogCapped ==
  /\ Len(messageHistory) <= 100
  /\ messageHistory[1] = Turn("system", 0)
  /\ \A i \in 2..Len(messageHistory) - 1 :
       messageHistory[i + 1].seq = messageHistory[i].seq + 1


\* A getNextActions promise resolves in this step.
ResultArrives == \E actions \in Batches : AgentReply(actions)

\* C19: while agent mode stays enabled (the player has done nothing since it
\* was switched on) and the session is active, a batch arrives only when the
\* batch before it has been dispatched completely: no action is still queued,
\* to be dropped for the new batch.
C19_BatchReplayedCompletely ==
  [][ (ResultArrives /\ clicks = 0 /\ isAgentPlaying /\ SessionActive)
        => Len(pendingActions) = 0 ]_vars

\* C20: a result that arrives when the session is no longer active or agent
\* mode is no longer enabled is discarded: the queue stays as it is.
C20_LateResultDiscarded ==
  [][ (ResultArrives /\ ~(SessionActive /\ isAgentPlaying))
        => pendingActions' = pendingActions ]_vars


\* A getAnalysis call is made in this step.
AnalysisCalled == \E delay \in Delays : GetAnalysisCall(delay)

\* Calls that contacted the remote service are at least 10 s apart.
ContactsSpaced ==
  \A i \in 1..Len(observer.contacts) - 1 :
    observer.contacts[i + 1] - observer.contacts[i] >= 10 * 1000

\* C21: two getAnalysis calls that contact the remote service are at least
\* 10 s apart, and a call made less than 10 s after the last contacting call
\* returns the default analysis without contacting the remote service, also
\* while an earlier call is awaiting its reply.
C21_AnalysisThrottled ==
  /\ ContactsSpaced
  /\ [][ /\ ContactsSpaced'
         /\ ( /\ AnalysisCalled
              /\ Len(observer.contacts) > 0
              /\ observer'.clock - observer.contacts[Len(observer.contacts)] < 10 * 1000 )
            => /\ observer'.contacts = observer.contacts
               /\ observer'.awaiting = observer.awaiting
               /\ observer'.analysis = "default" ]_vars

\* Two calls have contacted the remote service and await their replies, a
\* third call made between them was throttled.
C21_ThrottledWhileAwaiting ==
  /\ observer.calls = 3 /\ observer.awaiting = 2
  /\ Len(observer.contacts) = 2
  /\ ~observer.last.throttled

\* C26: after a getAnalysis call at time t, throttled or not, gameHistory ends
\* with the snapshot of that call and holds only snapshots taken after t minus
\* five minutes, in call order.
C26_RollingWindow ==
  observer.calls > 0 =>
    LET h == observer.gameHistory
        t == observer.last.time
    IN /\ Len(h) > 0
       /\ h[Len(h)] = Snapshot(t, observer.calls)
       /\ \A i \in 1..Len(h) : h[i].timestamp > t - 5 * 60 * 1000
       /\ \A i \in 1..Len(h) - 1 : h[i].call < h[i + 1].call

\* A throttled call has recorded its snapshot and dropped an older one.
C26_ThrottledCallRecorded ==
  /\ observer.last.throttled
  /\ observer.calls = 3 /\ Len(observer.gameHistory) = 2
  /\ observer.gameHistory[2] = Snapshot(observer.clock, 3)


\* An event roll happens in this step.
EventRolls == \E chosen \in EventIds \cup {"none"} : EventTick(chosen)

\* The player calls generate or purchase in this step.
PlayerActs ==
  \/ \E type \in ResourceTypes : Generate(type)
  \/ \E id \in UpgradeIds : Purchase(id)

\* C22: drain ticks, event rolls and countdown ticks happen only in an active
\* session, event rolls only with events enabled; before the first generate or
\* purchase call no resource, credit or game flag changes.
C22_TicksOnlyWhileActive ==
  [][ /\ ~SessionActive => ~(DrainTick \/ CountdownTick \/ EventRolls)
      /\ ~eventsEnabled => ~EventRolls
      /\ ~gameStarted =>
           \/ UNCHANGED << resources, credits, upgrades, gameStarted, gameWon, gameLost,
                           criticalTimer, countdownSeconds >>
           \/ PlayerActs ]_vars

\* Events were enabled before the session started and a drain period has
\* passed: nothing has changed.
C22_IdleBeforeStart ==
  /\ ~gameStarted /\ eventsEnabled /\ now >= DrainPeriod
  /\ resources = Fresh.resources /\ credits = Fresh.credits


\* C23: a drain tick, with e the energy/100 of the resources it is applied to,
\* takes 1.2(2-e) from oxygen, 0.8(2-e) from water, 0.4(2-e) from temperature
\* and 0.6 from energy, down to the floors 0, 0, -60 and 0; it raises no
\* resource and changes neither credits nor upgrades.
C23_DrainFormula ==
  [][ DrainTick =>
        LET twoMinusE == 2 * U - resources.energy \div 100
        IN /\ resources'.oxygen = Max(0, resources.oxygen - (12 * twoMinusE) \div 10)
           /\ resources'.water = Max(0, resources.water - (8 * twoMinusE) \div 10)
           /\ resources'.temperature
                = Max(-60 * U, resources.temperature - (4 * twoMinusE) \div 10)
           /\ resources'.energy = Max(0, resources.energy - (6 * U) \div 10)
           /\ \A type \in ResourceTypes : resources'[type] <= resources[type]
           /\ credits' = credits /\ upgrades' = upgrades ]_vars

\* The drain has acted on energy 15 and oxygen 10.428: oxygen has lost
\* 1.2 * 1.85 = 2.22 and energy 0.6.
C23_DrainedAtLowEnergy ==
  /\ clicks = 0 /\ now >= DrainPeriod /\ timers.drain = DrainPeriod
  /\ resources.energy = 144 * (U \div 10)
  /\ resources.oxygen = 8208 * (U \div 1000)


\* Targets a generate call is made with: the four resources and, from the
\* agent, names that are no resource.
GenerateTargets == ResourceTypes \cup {a.target : a \in {b \in UNION {{batch[i] : i \in 1..Len(batch)} : batch \in Batches} : b.type = "generate"}}

\* The update of a generate call on type, with multiplier, applied to prev.
GenerateUpdate(prev, type, multiplier) ==
  IF type = "energy"
    THEN [prev EXCEPT !.energy = Min(100 * U, @ + EnergyGain(multiplier))]
    ELSE Generated(prev, type, multiplier)

Holdings(s) == << s.resources, s.credits, s.upgrades >>

\* What a human generate call on one of the four resources or a human
\* purchase call on a catalog upgrade can leave, made in the current state.
HumanOutcomes ==
  { Holdings(HandleAction(ClosureOf(Cur), Cur, type)) : type \in ResourceTypes }
  \cup { Holdings(PurchaseUpgrade(ClosureOf(Cur), Cur, id)) : id \in UpgradeIds }

\* The actionInterval dispatches the queued action in this step.
Dispatches(action) ==
  ActionTick /\ Len(pendingActions) > 0 /\ Head(pendingActions) = action

\* C25: what a dispatched agent action makes of resources, credits and
\* upgrades is what a human generate or purchase call could make of them in
\* the same state, and a dispatched generate on no resource type or purchase
\* of no catalog upgrade changes none of them.
C25_NoAgentPrivilege ==
  [][ \A batch \in Batches : \A i \in 1..Len(batch) :
        Dispatches(batch[i]) =>
          /\ \/ UNCHANGED << resources, credits, upgrades >>
             \/ << resources', credits', upgrades' >> \in HumanOutcomes
          /\ ( \/ batch[i].type = "generate" /\ batch[i].target \notin ResourceTypes
               \/ batch[i].type = "purchase" /\ batch[i].target \notin UpgradeIds )
             => UNCHANGED << resources, credits, upgrades >> ]_vars


\* A getNextActions call is made in this step and returns the actions parsed
\* from the reply.
ReturnsParsed == calls' = calls + 1 /\ TenStrings(lastOutcome')

\* C27: when getNextActions returns actions parsed from a reply, the log ends
\* with the user turn of that call followed by the assistant turn of the reply.
C27_ReplyLoggedBeforeReturn ==
  [][ ReturnsParsed =>
        LET before == messageHistory[Len(messageHistory)].seq
            n == Len(messageHistory')
        IN /\ n >= 3
           /\ messageHistory'[n - 1] = Turn("user", before + 1)
           /\ messageHistory'[n] = Turn("assistant", before + 2) ]_vars

\* A call on a full log has returned parsed actions: the log was trimmed and
\* ends with the user turn and the assistant turn of the call.
C27_LoggedOnFullLog ==
  /\ calls = 2 /\ TenStrings(lastOutcome)
  /\ messageHistory[2].seq > 1
  /\ messageHistory[Len(messageHistory)].role = "assistant"
  /\ messageHistory[Len(messageHistory) - 1].role = "user"


\* C28: countdownSeconds is an integer in 0..30, and it is 30 whenever the
\* session is active and Safe.
C28_CountdownRange ==
  /\ countdownSeconds \in 0..30
  /\ (SessionActive /\ criticalTimer = 0) => countdownSeconds = 30

\* An active session is Safe with the countdown at 30 after a critical
\* episode that had counted below 30.
C28_SafeAgainAtThirty ==
  /\ SessionActive /\ criticalTimer = 0
  /\ countdownSeconds = 30
  /\ hist.leftAt < 30

\* C29: gameLost becomes true only by a countdown tick fired in a started,
\* Critical game with countdownSeconds <= 1; a lost game has countdownSeconds 0.
C29_LostOnlyByCountdown ==
  /\ gameLost => countdownSeconds = 0
  /\ [][ /\ gameLost' => countdownSeconds' = 0
         /\ (~gameLost /\ gameLost') =>
              /\ CountdownTick
              /\ gameStarted /\ criticalTimer = 1
              /\ countdownSeconds <= 1 ]_vars

\* The game has been lost by the countdown reaching 0 in a critical episode.
C29_LostAtZero ==
  /\ gameLost /\ gameStarted /\ ~gameWon
  /\ criticalTimer = 1 /\ countdownSeconds = 0

\* C30: the first generate or purchase call starts the session and puts it
\* into Critical with countdownSeconds 30 at once, and an active session stays
\* Critical as long as oxygen, water or energy is at or below 5.
C30_CriticalFromStart ==
  /\ (SessionActive /\ AtOrBelowFive) => criticalTimer = 1
  /\ [][ /\ (SessionActive' /\ AtOrBelowFive') => criticalTimer' = 1
         /\ (~gameStarted /\ PlayerActs) =>
              /\ gameStarted'
              /\ criticalTimer' = 1 /\ countdownSeconds' = 30
              /\ timers'.countdown = CountdownPeriod ]_vars

\* The session has just been started by a generate call on oxygen: oxygen 3,
\* water 0, Critical, 30 seconds left.
C30_StartedByGenerate ==
  /\ gameStarted /\ clicks = 1 /\ now = 0
  /\ resources.oxygen = 3 * U /\ resources.water = 0
  /\ criticalTimer = 1 /\ countdownSeconds = 30


\* The queue holds at most 10 actions.
QueueBounded == Len(pendingActions) <= 10

\* The actionInterval is due and the queue loses its head in this step.
HeadRemoved ==
  /\ timers.action = 0 /\ Len(pendingActions) > 0
  /\ pendingActions' = Tail(pendingActions)

\* C31: the queue never holds more than 10 actions; a dispatch tick removes
\* exactly the head of the queue and executes that action alone; the queue
\* changes only by such a removal or by the arrival of a batch, and credits
\* and upgrades only by a dispatch tick or an input of the player, so no
\* action is executed twice and the actions of a batch are executed in order.
C31_QueueDispatchedInOrder ==
  /\ QueueBounded
  /\ [][ /\ QueueBounded'
         /\ pendingActions' # pendingActions =>
              \/ HeadRemoved
              \/ pendingActions' \in Batches /\ inflight' = inflight - 1
         /\ (timers.action = 0 /\ Len(pendingActions) > 0 /\ clicks' = clicks
             /\ inflight' = inflight /\ ActionTick) =>
              /\ HeadRemoved
              /\ << resources', credits', upgrades' >>
                   = Holdings(Dispatch(actionClosure, Cur, Head(pendingActions)))
         /\ (credits' # credits \/ upgrades' # upgrades) =>
              (clicks' = clicks + 1 \/ HeadRemoved) ]_vars

\* The first two actions of a batch, generate:water and purchase:oxygen1, have
\* been dispatched in this order; the other eight are queued.
C31_TwoDispatched ==
  /\ clicks = 0 /\ Len(pendingActions) = 8
  /\ Head(pendingActions) = Act("generate", "oxygen")
  /\ upgrades["oxygen1"] /\ credits = 8

====
